---- MODULE Spec2Model ----
(***************************************************************************)
(* Streaming orchestration of RecruitAssistPage (src/app/page.tsx) and of  *)
(* the useAudioRecorder hook (src/hooks/use-audio-recorder.ts).            *)
(*                                                                         *)
(* One action is one browser task: an event handler, a timer callback or   *)
(* the continuation of an awaited promise, followed by the React commit it *)
(* causes (re-render and the effects whose dependencies changed).  The     *)
(* state updates of one task are batched: the last setX of a task wins.    *)
(*                                                                         *)
(* A function created in a render closes over that render's isRecording    *)
(* and appStatus.  A closure that outlives its render (a call that is      *)
(* awaiting, a timeout, the handlers installed on the MediaRecorder)       *)
(* carries these values in a record; refs are read at the time of use.     *)
(***************************************************************************)
EXTENDS Integers, Sequences, FiniteSets, TLC

\* ------------------------------------------------------------------ bounds
MaxSessions == 2
MaxChunks == 2
MaxSummaries == 2
\* Transcripts given to the summarization gateway on its own: up to MaxPad
\* blanks, up to MaxInputLen letters, up to MaxPad blanks.
MaxPad == 1
MaxInputLen == 32

\* ------------------------------------------------------- program constants
MIN_TRANSCRIPT_LENGTH_FOR_SUMMARY == 30
SUMMARIZE_DEBOUNCE_MS == 7000
MIN_TRANSCRIPT_LENGTH_FOR_MEANINGFUL_SUMMARY == 30

\* Time is counted in seconds; a duration is counted up to the quiet window.
QuietWindow == SUMMARIZE_DEBOUNCE_MS \div 1000
Later(d) == IF d < QuietWindow THEN d + 1 ELSE d

\* -------------------------------------------------------------------- text
\* A text is a sequence of characters.
Rep(c, n) == [i \in 1..n |-> c]

\* String.prototype.trim
Trim(s) ==
  LET idx == {i \in 1..Len(s) : s[i] # " "}
      lo == CHOOSE i \in idx : \A j \in idx : i <= j
      hi == CHOOSE i \in idx : \A j \in idx : i >= j
  IN IF idx = {} THEN <<>> ELSE SubSeq(s, lo, hi)

\* The texts the transcription gateway answers with: nothing (silence), a
\* short segment, and a segment that reaches the threshold by itself.
Results == {<<>>, Rep("a", 14), Rep("b", 30)}

\* prev + (prev ? " " : "") + result.transcription
AppendSegment(prev, r) == prev \o (IF prev # <<>> THEN <<" ">> ELSE <<>>) \o r

\* ------------------------------------------------------------------- notes
Note(kind) == [kind |-> kind, of |-> <<>>, call |-> 0]
InitialNotes == Note("initial")
WaitingNotes == Note("waiting")
NotEnoughNotes == Note("notEnough")
ErrorNotes == Note("error")
Placeholders == {InitialNotes, WaitingNotes, NotEnoughNotes}

\* The summarization gateway.  The model's answer is identified by the call
\* and by the transcript it was given.
\* summarizeInterviewFlow (summarize-interview.ts lines 148-166): the flow
\* answers the placeholder for a short transcript and calls the model otherwise.
summarizeInterviewFlow(call) ==
  IF Len(Trim(call.transcript)) < MIN_TRANSCRIPT_LENGTH_FOR_MEANINGFUL_SUMMARY
  THEN WaitingNotes
  ELSE [kind |-> "summary", of |-> call.transcript, call |-> call.id]

\* summarizeInterview answering the placeholder up to and including the
\* threshold length
summarizeInterviewOffByOne(call) ==
  IF Trim(call.transcript) = <<>> THEN WaitingNotes
  ELSE IF Len(Trim(call.transcript)) <= MIN_TRANSCRIPT_LENGTH_FOR_MEANINGFUL_SUMMARY
  THEN WaitingNotes
  ELSE summarizeInterviewFlow(call)

\* summarizeInterview (lines 29-43): the wrapper answers the placeholder for a
\* blank or short transcript and calls the flow otherwise.
summarizeInterview(call) ==
  IF Trim(call.transcript) = <<>> THEN WaitingNotes
  ELSE IF Len(Trim(call.transcript)) < MIN_TRANSCRIPT_LENGTH_FOR_MEANINGFUL_SUMMARY
  THEN WaitingNotes
  ELSE summarizeInterviewFlow(call)

\* ------------------------------------------------------------------- state
VARIABLES
  currentTranscript,         \* useState: Transcript
  currentNotes,              \* useState: Notes
  appStatus,                 \* useState: SessionStatus
  errorMessage,              \* useState: last error
  isRecording,               \* useAudioRecorder state
  recorderError,             \* useAudioRecorder state `error`
  audioChunkQueueRef,        \* ref: ChunkQueue
  isProcessingAudioChunkRef, \* ref: transcription in-flight flag
  transcriptRef,             \* ref: copy of currentTranscript, set by an effect
  summarizeTimeoutRef,       \* pending debounce timeout: {} or {closure}
  mediaRecorder,             \* the MediaRecorder and the closure of its handlers
  starting,                  \* getUserMedia pending: {} or {closure}
  readers,                   \* FileReaders pending, in order of creation
  polls,                     \* pending setTimeout(checkAndFinalize, 500)
  transcribing,              \* transcribeInterview calls in flight
  summarizing,               \* summarizeInterview calls in flight
  session,                   \* history: number of the current session
  produced,                  \* history: chunks produced by the recorders, all sessions
  enqueued,                  \* history: chunks pushed on the queue, this session
  completed,                 \* history: transcription outcomes, this session
  txIssued,                  \* history: transcription calls issued, this session
  sumIssued,                 \* history: summarization calls issued, all sessions
  sumIssuedHere,             \* history: summarization calls issued, this session
  finalIssued,               \* history: final summarization calls issued, this session
  failed,                    \* history: a gateway call of this session has failed
  stopped,                   \* history: onRecordingStop ran in this session
  statusAtStop,              \* history: SessionStatus when it ran
  finalNotes,                \* history: results of this session's final calls
  mediaDevices,              \* the browser has navigator.mediaDevices.getUserMedia
  sinceGrowth,               \* history: time since Transcript grew or the session started
  debouncedSinceGrowth,      \* history: intermediate calls issued since then
  uncovered,                 \* history: Transcript grew during a call, no call issued since
  streamRef,                 \* ref: the MediaStream: "null", "live" or "stopped" (tracks ended)
  mounted,                   \* the page component is mounted
  onRecordingStopCalls,      \* history: calls of onRecordingStop, this session
  input,                     \* the transcript of a call of the gateway on its own
  output                     \* the answer to it

vars == <<currentTranscript, currentNotes, appStatus, errorMessage, isRecording,
          recorderError, audioChunkQueueRef, isProcessingAudioChunkRef,
          transcriptRef, summarizeTimeoutRef, mediaRecorder, starting, readers,
          polls, transcribing, summarizing, session, produced, enqueued,
          completed, txIssued, sumIssued, sumIssuedHere, finalIssued, failed,
          stopped, statusAtStop, finalNotes, mediaDevices, sinceGrowth,
          debouncedSinceGrowth, uncovered, streamRef, mounted,
          onRecordingStopCalls, input, output>>

\* The state as one record, threaded through the statements of a handler.
Cur ==
  [currentTranscript |-> currentTranscript, currentNotes |-> currentNotes,
   appStatus |-> appStatus, errorMessage |-> errorMessage,
   isRecording |-> isRecording, recorderError |-> recorderError,
   audioChunkQueueRef |-> audioChunkQueueRef,
   isProcessingAudioChunkRef |-> isProcessingAudioChunkRef,
   transcriptRef |-> transcriptRef, summarizeTimeoutRef |-> summarizeTimeoutRef,
   mediaRecorder |-> mediaRecorder, starting |-> starting, readers |-> readers,
   polls |-> polls, transcribing |-> transcribing, summarizing |-> summarizing,
   session |-> session, produced |-> produced, enqueued |-> enqueued,
   completed |-> completed, txIssued |-> txIssued, sumIssued |-> sumIssued,
   sumIssuedHere |-> sumIssuedHere, finalIssued |-> finalIssued,
   failed |-> failed, stopped |-> stopped, statusAtStop |-> statusAtStop,
   finalNotes |-> finalNotes, mediaDevices |-> mediaDevices,
   sinceGrowth |-> sinceGrowth, debouncedSinceGrowth |-> debouncedSinceGrowth,
   uncovered |-> uncovered, streamRef |-> streamRef, mounted |-> mounted,
   onRecordingStopCalls |-> onRecordingStopCalls, input |-> input,
   output |-> output]

Apply(P) ==
  /\ currentTranscript' = P.currentTranscript
  /\ currentNotes' = P.currentNotes
  /\ appStatus' = P.appStatus
  /\ errorMessage' = P.errorMessage
  /\ isRecording' = P.isRecording
  /\ recorderError' = P.recorderError
  /\ audioChunkQueueRef' = P.audioChunkQueueRef
  /\ isProcessingAudioChunkRef' = P.isProcessingAudioChunkRef
  /\ transcriptRef' = P.transcriptRef
  /\ summarizeTimeoutRef' = P.summarizeTimeoutRef
  /\ mediaRecorder' = P.mediaRecorder
  /\ starting' = P.starting
  /\ readers' = P.readers
  /\ polls' = P.polls
  /\ transcribing' = P.transcribing
  /\ summarizing' = P.summarizing
  /\ session' = P.session
  /\ produced' = P.produced
  /\ enqueued' = P.enqueued
  /\ completed' = P.completed
  /\ txIssued' = P.txIssued
  /\ sumIssued' = P.sumIssued
  /\ sumIssuedHere' = P.sumIssuedHere
  /\ finalIssued' = P.finalIssued
  /\ failed' = P.failed
  /\ stopped' = P.stopped
  /\ statusAtStop' = P.statusAtStop
  /\ finalNotes' = P.finalNotes
  /\ mediaDevices' = P.mediaDevices
  /\ sinceGrowth' = P.sinceGrowth
  /\ debouncedSinceGrowth' = P.debouncedSinceGrowth
  /\ uncovered' = P.uncovered
  /\ streamRef' = P.streamRef
  /\ mounted' = P.mounted
  /\ onRecordingStopCalls' = P.onRecordingStopCalls
  /\ input' = P.input
  /\ output' = P.output

\* The values a function created in the latest render closes over.
Rendered == [isRecording |-> isRecording, appStatus |-> appStatus]

InitPage ==
  /\ currentTranscript = <<>>
  /\ currentNotes = InitialNotes
  /\ appStatus = "idle"
  /\ errorMessage = "none"
  /\ isRecording = FALSE
  /\ recorderError = "none"
  /\ audioChunkQueueRef = <<>>
  /\ isProcessingAudioChunkRef = FALSE
  /\ transcriptRef = <<>>
  /\ summarizeTimeoutRef = {}
  /\ mediaRecorder = [state |-> "none",
                      cl |-> [isRecording |-> FALSE, appStatus |-> "idle", session |-> 0]]
  /\ starting = {}
  /\ readers = <<>>
  /\ polls = {}
  /\ transcribing = {}
  /\ summarizing = {}
  /\ session = 0
  /\ produced = 0
  /\ enqueued = <<>>
  /\ completed = <<>>
  /\ txIssued = 0
  /\ sumIssued = 0
  /\ sumIssuedHere = 0
  /\ finalIssued = 0
  /\ failed = FALSE
  /\ stopped = FALSE
  /\ statusAtStop = "idle"
  /\ finalNotes = {}
  /\ mediaDevices \in BOOLEAN
  /\ sinceGrowth = 0
  /\ debouncedSinceGrowth = 0
  /\ uncovered = FALSE
  /\ streamRef = "null"
  /\ mounted = TRUE
  /\ onRecordingStopCalls = 0

\* No call of the gateway on its own
NoOutput == Note("none")

Init ==
  /\ InitPage
  /\ input = <<>>
  /\ output = NoOutput

\* ----------------------------------------------------------------- effects
\* useEffect(() => { transcriptRef.current = currentTranscript }, [currentTranscript])
SyncTranscriptRef(old, P) ==
  IF P.currentTranscript # old.currentTranscript
  THEN [P EXCEPT !.transcriptRef = P.currentTranscript]
  ELSE P

\* The debounce effect without clearTimeout on its early return
DebounceEffectNoClear(old, P) ==
  IF /\ P.currentTranscript = old.currentTranscript
     /\ P.isRecording = old.isRecording
     /\ P.appStatus = old.appStatus
  THEN P
  ELSE IF \/ ~P.isRecording
          \/ Trim(P.currentTranscript) = <<>>
          \/ P.appStatus = "error"
          \/ P.appStatus = "summarizingNotes"
  THEN P
  ELSE IF Len(Trim(P.transcriptRef)) < MIN_TRANSCRIPT_LENGTH_FOR_SUMMARY
  THEN [P EXCEPT !.summarizeTimeoutRef = {},
                 !.currentNotes =
                    IF P.appStatus # "summarizingNotes" /\ P.appStatus # "error"
                    THEN WaitingNotes ELSE @]
  ELSE [P EXCEPT !.summarizeTimeoutRef =
                    {[isRecording |-> P.isRecording, appStatus |-> P.appStatus,
                      age |-> 0]}]

\* The debounce effect calling setTimeout without clearing the timeout it set
\* before
DebounceEffectNoCancel(old, P) ==
  IF /\ P.currentTranscript = old.currentTranscript
     /\ P.isRecording = old.isRecording
     /\ P.appStatus = old.appStatus
  THEN P
  ELSE IF \/ ~P.isRecording
          \/ Trim(P.currentTranscript) = <<>>
          \/ P.appStatus = "error"
          \/ P.appStatus = "summarizingNotes"
  THEN [P EXCEPT !.summarizeTimeoutRef = {}]
  ELSE IF Len(Trim(P.transcriptRef)) < MIN_TRANSCRIPT_LENGTH_FOR_SUMMARY
  THEN [P EXCEPT !.summarizeTimeoutRef = {},
                 !.currentNotes =
                    IF P.appStatus # "summarizingNotes" /\ P.appStatus # "error"
                    THEN WaitingNotes ELSE @]
  ELSE [P EXCEPT !.summarizeTimeoutRef =
                    @ \cup {[isRecording |-> P.isRecording, appStatus |-> P.appStatus,
                             age |-> 0]}]

\* The debounce effect, deps [currentTranscript, isRecording, handleSummarizeNotes,
\* appStatus]; handleSummarizeNotes changes exactly when isRecording or appStatus do.
\* The timeout it sets closes over the render it was set in; age is the time
\* since setTimeout was called.
DebounceEffect(old, P) ==
  IF /\ P.currentTranscript = old.currentTranscript
     /\ P.isRecording = old.isRecording
     /\ P.appStatus = old.appStatus
  THEN P
  ELSE IF \/ ~P.isRecording
          \/ Trim(P.currentTranscript) = <<>>
          \/ P.appStatus = "error"
          \/ P.appStatus = "summarizingNotes"
  THEN [P EXCEPT !.summarizeTimeoutRef = {}]
  ELSE IF Len(Trim(P.transcriptRef)) < MIN_TRANSCRIPT_LENGTH_FOR_SUMMARY
  THEN [P EXCEPT !.summarizeTimeoutRef = {},
                 !.currentNotes =
                    IF P.appStatus # "summarizingNotes" /\ P.appStatus # "error"
                    THEN WaitingNotes ELSE @]
  ELSE [P EXCEPT !.summarizeTimeoutRef =
                    {[isRecording |-> P.isRecording, appStatus |-> P.appStatus,
                      age |-> 0]}]

\* useEffect(() => { if (recorderError) {...} }, [recorderError, toast])
RecorderErrorEffect(old, P) ==
  IF P.recorderError # old.recorderError /\ P.recorderError # "none"
  THEN [P EXCEPT !.appStatus = "error", !.errorMessage = "recorder"]
  ELSE P

\* One render and its effects, in the order the component declares them.  The
\* effect that stores doProcessAudioChunkQueue in processAudioChunkQueueRef has
\* no state of its own: the stored function closes over the rendered values.
Render(old, P) ==
  RecorderErrorEffect(old, DebounceEffect(old, SyncTranscriptRef(old, P)))

\* The commit that follows a task: the render of the batched updates, and the
\* render caused by what the effects of the first one set.
Commit(P) == Render(P, Render(Cur, P))

\* handleChunkTranscription without the assignment of the in-flight flag
handleChunkTranscriptionNoFlag(P, chunk, cl) ==
  [P EXCEPT
     !.appStatus =
        IF cl.appStatus # "error" /\ cl.appStatus # "summarizingNotes"
        THEN (IF cl.isRecording THEN "capturingAudio" ELSE "processingAudioChunk")
        ELSE @,
     !.transcribing = @ \cup {[chunk |-> chunk, isRecording |-> cl.isRecording,
                               appStatus |-> cl.appStatus]},
     !.txIssued = @ + 1]

\* ---------------------------------------------------- transcription channel
\* handleChunkTranscription up to its await (lines 161-172); cl is the render
\* the function was created in.
handleChunkTranscription(P, chunk, cl) ==
  [P EXCEPT
     !.isProcessingAudioChunkRef = TRUE,
     !.appStatus =
        IF cl.appStatus # "error" /\ cl.appStatus # "summarizingNotes"
        THEN (IF cl.isRecording THEN "capturingAudio" ELSE "processingAudioChunk")
        ELSE @,
     !.transcribing = @ \cup {[chunk |-> chunk, isRecording |-> cl.isRecording,
                               appStatus |-> cl.appStatus]},
     !.txIssued = @ + 1]

\* doProcessAudioChunkQueue without the test of the in-flight flag
doProcessAudioChunkQueueUnguarded(P, cl) ==
  IF Len(P.audioChunkQueueRef) > 0 /\ cl.appStatus # "error"
  THEN handleChunkTranscription([P EXCEPT !.audioChunkQueueRef = Tail(@)],
                                Head(P.audioChunkQueueRef), cl)
  ELSE P

\* doProcessAudioChunkQueue reading the head of the queue without shift()
doProcessAudioChunkQueueNoShift(P, cl) ==
  IF /\ Len(P.audioChunkQueueRef) > 0
     /\ ~P.isProcessingAudioChunkRef
     /\ cl.appStatus # "error"
  THEN handleChunkTranscription(P, Head(P.audioChunkQueueRef), cl)
  ELSE P

\* doProcessAudioChunkQueue (lines 203-210)
doProcessAudioChunkQueue(P, cl) ==
  IF /\ Len(P.audioChunkQueueRef) > 0
     /\ ~P.isProcessingAudioChunkRef
     /\ cl.appStatus # "error"
  THEN handleChunkTranscription([P EXCEPT !.audioChunkQueueRef = Tail(@)],
                                Head(P.audioChunkQueueRef), cl)
  ELSE P

\* processAudioChunkQueueRef.current(): the function stored by the last commit
processAudioChunkQueueRef(P) == doProcessAudioChunkQueue(P, Rendered)

\* onChunkAvailable pushing the chunk without calling the drain
onChunkAvailableNoDrain(P, chunk, a0) ==
  IF a0 = "error" THEN P
  ELSE [P EXCEPT !.audioChunkQueueRef = Append(@, chunk),
                 !.enqueued = Append(@, chunk)]

\* onChunkAvailable (lines 49-53); a0 is the appStatus of the render in which
\* the session was started
onChunkAvailable(P, chunk, a0) ==
  IF a0 = "error" THEN P
  ELSE processAudioChunkQueueRef(
         [P EXCEPT !.audioChunkQueueRef = Append(@, chunk),
                   !.enqueued = Append(@, chunk)])

\* handleChunkTranscription treating an empty transcription as a failure
TranscriptionSettledEmptyFails(P, call, ok, r) ==
  LET P1 == IF ok
            THEN (IF r # <<>>
                  THEN [P EXCEPT !.currentTranscript = AppendSegment(@, r),
                                 !.sinceGrowth = 0,
                                 !.debouncedSinceGrowth = 0,
                                 !.uncovered =
                                    @ \/ \E c \in P.summarizing : c.session = P.session]
                  ELSE [P EXCEPT !.errorMessage = "transcription",
                                 !.appStatus = "error"])
            ELSE [P EXCEPT !.errorMessage = "transcription", !.appStatus = "error"]
      P2 == [P1 EXCEPT
               !.isProcessingAudioChunkRef = FALSE,
               !.transcribing = @ \ {call},
               !.completed = IF call.chunk.session = P.session
                             THEN Append(@, [chunk |-> call.chunk, ok |-> ok, text |-> r])
                             ELSE @,
               !.failed = @ \/ (~ok /\ call.chunk.session = P.session)]
      P3 == processAudioChunkQueueRef(P2)
  IN IF ~call.isRecording /\ Len(P3.audioChunkQueueRef) = 0
     THEN IF call.appStatus # "error" /\ Trim(P3.transcriptRef) = <<>>
          THEN [P3 EXCEPT !.appStatus = "idle"]
          ELSE IF /\ call.appStatus # "error"
                  /\ call.appStatus # "summarizingNotes"
                  /\ Len(Trim(P3.transcriptRef)) < MIN_TRANSCRIPT_LENGTH_FOR_SUMMARY
          THEN [P3 EXCEPT !.appStatus = "idle"]
          ELSE P3
     ELSE IF /\ call.isRecording
             /\ call.appStatus # "error"
             /\ call.appStatus # "summarizingNotes"
     THEN [P3 EXCEPT !.appStatus = "capturingAudio"]
     ELSE P3

\* handleChunkTranscription from the settlement of its await (lines 172-199)
TranscriptionSettled(P, call, ok, r) ==
  LET P1 == IF ok
            THEN (IF r # <<>>
                  THEN [P EXCEPT !.currentTranscript = AppendSegment(@, r),
                                 !.sinceGrowth = 0,
                                 !.debouncedSinceGrowth = 0,
                                 !.uncovered =
                                    @ \/ \E c \in P.summarizing : c.session = P.session]
                  ELSE P)
            ELSE [P EXCEPT !.errorMessage = "transcription", !.appStatus = "error"]
      P2 == [P1 EXCEPT
               !.isProcessingAudioChunkRef = FALSE,
               !.transcribing = @ \ {call},
               !.completed = IF call.chunk.session = P.session
                             THEN Append(@, [chunk |-> call.chunk, ok |-> ok, text |-> r])
                             ELSE @,
               !.failed = @ \/ (~ok /\ call.chunk.session = P.session)]
      P3 == processAudioChunkQueueRef(P2)
  IN IF ~call.isRecording /\ Len(P3.audioChunkQueueRef) = 0
     THEN IF call.appStatus # "error" /\ Trim(P3.transcriptRef) = <<>>
          THEN [P3 EXCEPT !.appStatus = "idle"]
          ELSE IF /\ call.appStatus # "error"
                  /\ call.appStatus # "summarizingNotes"
                  /\ Len(Trim(P3.transcriptRef)) < MIN_TRANSCRIPT_LENGTH_FOR_SUMMARY
          THEN [P3 EXCEPT !.appStatus = "idle"]
          ELSE P3
     ELSE IF /\ call.isRecording
             /\ call.appStatus # "error"
             /\ call.appStatus # "summarizingNotes"
     THEN [P3 EXCEPT !.appStatus = "capturingAudio"]
     ELSE P3

\* ---------------------------------------------------- summarization channel
\* handleSummarizeNotes up to its await (lines 83-100)
handleSummarizeNotes(P, t, isFinal, cl) ==
  IF Len(Trim(t)) < MIN_TRANSCRIPT_LENGTH_FOR_SUMMARY
  THEN IF isFinal /\ ~cl.isRecording /\ cl.appStatus # "error"
       THEN [P EXCEPT !.currentNotes = NotEnoughNotes, !.appStatus = "idle"]
       ELSE IF ~isFinal /\ cl.appStatus # "summarizingNotes" /\ cl.appStatus # "error"
       THEN [P EXCEPT !.currentNotes = WaitingNotes]
       ELSE P
  ELSE IF cl.appStatus = "summarizingNotes" /\ ~isFinal THEN P
  ELSE IF cl.appStatus = "error" /\ ~isFinal THEN P
  ELSE [P EXCEPT
          !.appStatus = "summarizingNotes",
          !.summarizing = @ \cup {[id |-> P.sumIssued + 1, transcript |-> t,
                                   isFinal |-> isFinal,
                                   isRecording |-> cl.isRecording,
                                   appStatus |-> cl.appStatus,
                                   session |-> P.session]},
          !.sumIssued = @ + 1,
          !.sumIssuedHere = @ + 1,
          !.finalIssued = IF isFinal THEN @ + 1 ELSE @,
          !.debouncedSinceGrowth = IF isFinal THEN @ ELSE @ + 1,
          !.uncovered = (t # P.currentTranscript)]

\* handleSummarizeNotes from the settlement of its await (lines 100-122)
SummarizationSettled(P, call, ok) ==
  LET P1 == [P EXCEPT !.summarizing = @ \ {call},
                      !.failed = @ \/ (~ok /\ call.session = P.session),
                      !.finalNotes =
                         IF ok /\ call.isFinal /\ call.session = P.session
                         THEN @ \cup {summarizeInterview(call)} ELSE @]
  IN IF ok
     THEN [P1 EXCEPT
             !.currentNotes = summarizeInterview(call),
             !.appStatus =
                IF call.appStatus # "error"
                THEN (IF call.isFinal THEN "idle"
                      ELSE IF call.isRecording THEN "capturingAudio"
                      ELSE "processingAudioChunk")
                ELSE @]
     ELSE [P1 EXCEPT !.errorMessage = "summarization",
                     !.currentNotes = ErrorNotes,
                     !.appStatus = "error"]

\* The timeout callback holding back while a transcription call is in flight
DebounceFiredBlocked(P, cl) ==
  IF /\ cl.isRecording
     /\ Len(Trim(P.transcriptRef)) >= MIN_TRANSCRIPT_LENGTH_FOR_SUMMARY
     /\ cl.appStatus # "error"
     /\ cl.appStatus # "summarizingNotes"
     /\ ~P.isProcessingAudioChunkRef
  THEN handleSummarizeNotes(P, P.transcriptRef, FALSE, cl)
  ELSE P

\* The timeout set by the debounce effect (lines 147-151)
DebounceFired(P, cl) ==
  IF /\ cl.isRecording
     /\ Len(Trim(P.transcriptRef)) >= MIN_TRANSCRIPT_LENGTH_FOR_SUMMARY
     /\ cl.appStatus # "error"
     /\ cl.appStatus # "summarizingNotes"
  THEN handleSummarizeNotes(P, P.transcriptRef, FALSE, cl)
  ELSE P

\* ------------------------------------------------------ finalization barrier
\* checkAndFinalize without the test of the in-flight flag
checkAndFinalizeEager(P, cl) ==
  IF Len(P.audioChunkQueueRef) = 0
  THEN IF /\ Len(Trim(P.transcriptRef)) >= MIN_TRANSCRIPT_LENGTH_FOR_SUMMARY
          /\ cl.appStatus # "error"
       THEN handleSummarizeNotes(P, P.transcriptRef, TRUE, cl)
       ELSE IF cl.appStatus # "error"
       THEN [P EXCEPT !.currentNotes = IF Trim(P.transcriptRef) = <<>>
                                       THEN InitialNotes ELSE @,
                      !.appStatus = "idle"]
       ELSE P
  ELSE IF cl.appStatus # "error"
  THEN [P EXCEPT !.appStatus = "processingAudioChunk",
                 !.polls = @ \cup {cl}]
  ELSE P

\* checkAndFinalize (lines 58-72); cl is the render in which the session was
\* started: it holds the appStatus the function tests and is the closure of the
\* handleSummarizeNotes it calls
checkAndFinalize(P, cl) ==
  IF Len(P.audioChunkQueueRef) = 0 /\ ~P.isProcessingAudioChunkRef
  THEN IF /\ Len(Trim(P.transcriptRef)) >= MIN_TRANSCRIPT_LENGTH_FOR_SUMMARY
          /\ cl.appStatus # "error"
       THEN handleSummarizeNotes(P, P.transcriptRef, TRUE, cl)
       ELSE IF cl.appStatus # "error"
       THEN [P EXCEPT !.currentNotes = IF Trim(P.transcriptRef) = <<>>
                                       THEN InitialNotes ELSE @,
                      !.appStatus = "idle"]
       ELSE P
  ELSE IF cl.appStatus # "error"
  THEN [P EXCEPT !.appStatus = "processingAudioChunk",
                 !.polls = @ \cup {cl}]
  ELSE P

\* onRecordingStop (lines 54-74)
onRecordingStop(P, cl) ==
  checkAndFinalize([P EXCEPT !.summarizeTimeoutRef = {}, !.stopped = TRUE,
                              !.statusAtStop = appStatus,
                              !.onRecordingStopCalls = @ + 1], cl)

\* ------------------------------------------------------------------ actions
\* A task of the mounted page and the commit that follows it.  The number of
\* summarization calls issued is capped.
Step(P) == mounted /\ P.sumIssued <= MaxSummaries /\ Apply(Commit(P))

\* A task that runs after the page was unmounted: the state setters do nothing
\* and nothing renders; refs and calls are as in the mounted page.
Detached(P) ==
  [P EXCEPT !.currentTranscript = currentTranscript,
            !.currentNotes = currentNotes,
            !.appStatus = appStatus,
            !.errorMessage = errorMessage,
            !.isRecording = isRecording,
            !.recorderError = recorderError]

StepDetached(P) == ~mounted /\ P.sumIssued <= MaxSummaries /\ Apply(Detached(P))

\* <Button disabled={isProcessingAnythingNonRecording}> (lines 261-262, 283)
isProcessingAnythingNonRecording ==
  (appStatus = "processingAudioChunk" \/ appStatus = "summarizingNotes") /\ ~isRecording

\* handleRecordToggle, start branch, up to its call of startAudioCapture
\* (lines 229-235), and setError(null) of startRecording (line 30)
handleRecordToggle(P) ==
  [P EXCEPT
     !.currentTranscript = <<>>,
     !.currentNotes = InitialNotes,
     !.transcriptRef = <<>>,
     !.audioChunkQueueRef = <<>>,
     !.errorMessage = "none",
     !.appStatus = "capturingAudio",
     !.recorderError = "none",
     !.session = @ + 1,
     !.enqueued = <<>>,
     !.completed = <<>>,
     !.txIssued = 0,
     !.sumIssuedHere = 0,
     !.finalIssued = 0,
     !.failed = FALSE,
     !.stopped = FALSE,
     !.statusAtStop = "idle",
     !.finalNotes = {},
     !.sinceGrowth = 0,
     !.debouncedSinceGrowth = 0,
     !.uncovered = FALSE,
     !.onRecordingStopCalls = 0]

\* The toggle clicked while capture is not active, with startRecording up to
\* its await of getUserMedia (lines 29-33).  The handlers startRecording will
\* install are those of this render.  The toggle is not clicked again while
\* the request for the microphone is pending, and a recorder that failed
\* delivers no event once a new session was started.
ToggleStart ==
  /\ mediaDevices
  /\ ~isRecording
  /\ ~isProcessingAnythingNonRecording
  /\ starting = {}
  /\ mediaRecorder.state \in {"none", "inactive", "failed"}
  /\ session < MaxSessions
  /\ Step([handleRecordToggle(Cur) EXCEPT
       !.starting = {[isRecording |-> isRecording, appStatus |-> appStatus,
                      session |-> session + 1]},
       !.mediaRecorder.state = IF @ = "failed" THEN "inactive" ELSE @])

\* The toggle clicked in a browser without getUserMedia: startRecording runs
\* to its end inside the click (lines 30-31, 80-83), so setError(null) and
\* setError(message) are one batch with the reset of the page.
ToggleStartUnsupported ==
  /\ ~mediaDevices
  /\ ~isRecording
  /\ ~isProcessingAnythingNonRecording
  /\ session < MaxSessions
  /\ Step([handleRecordToggle(Cur) EXCEPT
       !.recorderError = "unsupported",
       !.isRecording = FALSE])

\* startRecording after getUserMedia resolved (lines 33-71)
StartSucceeded ==
  \E cl \in starting :
    Step([Cur EXCEPT
       !.starting = {},
       !.mediaRecorder = [state |-> "recording", cl |-> cl],
       !.streamRef = "live",
       !.isRecording = TRUE])

\* startRecording when getUserMedia rejects or is missing (lines 72-83)
StartFailed ==
  \E cl \in starting :
    Step([Cur EXCEPT
       !.starting = {},
       !.recorderError = "microphone",
       !.isRecording = FALSE])

\* ondataavailable with data (lines 37-45): a FileReader starts
DataAvailable ==
  /\ mediaRecorder.state = "recording"
  /\ produced < MaxChunks
  /\ Step([Cur EXCEPT
       !.produced = @ + 1,
       !.readers = Append(@, [chunk |-> [session |-> mediaRecorder.cl.session,
                                         n |-> produced + 1],
                              cl |-> mediaRecorder.cl])])

\* reader.onloadend (lines 40-42)
ReaderLoadEnd ==
  /\ Len(readers) > 0
  /\ Step(onChunkAvailable([Cur EXCEPT !.readers = Tail(@)],
                           Head(readers).chunk, Head(readers).cl.appStatus))

\* The toggle with the reset of the start branch done before the test of
\* isRecording
ToggleStopResetting ==
  /\ isRecording
  /\ mediaRecorder.state # "none"
  /\ IF mediaRecorder.state = "recording"
     THEN Step([handleRecordToggle(Cur) EXCEPT !.mediaRecorder.state = "stopping"])
     ELSE Step([handleRecordToggle(Cur) EXCEPT !.isRecording = FALSE,
                                               !.streamRef = "null"])

\* handleRecordToggle, stop branch (lines 226-228), and stopRecording (lines 86-95)
ToggleStop ==
  /\ isRecording
  /\ mediaRecorder.state # "none"
  /\ IF mediaRecorder.state = "recording"
     THEN Step([Cur EXCEPT !.mediaRecorder.state = "stopping"])
     ELSE Step([Cur EXCEPT !.isRecording = FALSE, !.streamRef = "null"])

\* The events of a recorder that stops: dataavailable with what was recorded
\* since the last slice, if anything, then stop (lines 47-54)
onstop(last) ==
  LET P1 == IF last
            THEN [Cur EXCEPT
                    !.produced = @ + 1,
                    !.readers = Append(@,
                       [chunk |-> [session |-> mediaRecorder.cl.session,
                                   n |-> produced + 1],
                        cl |-> mediaRecorder.cl])]
            ELSE Cur
      P2 == [P1 EXCEPT !.isRecording = FALSE,
                       !.streamRef = "null",
                       !.mediaRecorder.state = "inactive"]
  IN onRecordingStop(P2, mediaRecorder.cl)

\* The stop event of the recorder
RecorderStopped ==
  /\ mediaRecorder.state \in {"stopping", "failed"}
  /\ \E last \in BOOLEAN :
       /\ last => produced < MaxChunks
       /\ Step(onstop(last))

\* mediaRecorder.onerror calling onRecordingStop as onstop does
onerrorNotifying ==
  onRecordingStop([Cur EXCEPT
                     !.recorderError = "recording",
                     !.isRecording = FALSE,
                     !.streamRef = "null",
                     !.mediaRecorder.state = "failed"], mediaRecorder.cl)

\* mediaRecorder.onerror (lines 56-68)
onerror ==
  [Cur EXCEPT
     !.recorderError = "recording",
     !.isRecording = FALSE,
     !.streamRef = "null",
     !.mediaRecorder.state = "failed"]

\* The error event of the recorder
RecorderFailed ==
  /\ mediaRecorder.state = "recording"
  /\ Step(onerror)

\* setTimeout(checkAndFinalize, 500) fires
PollFiredFor(cl) ==
  Step(checkAndFinalize([Cur EXCEPT !.polls = @ \ {cl}], cl))

\* Any of the pending polls may be the one whose delay has passed
PollFired == \E cl \in polls : PollFiredFor(cl)

\* The debounce timeout fires.  The stop event follows stop() within much less
\* than the debounce delay, so no timeout fires between the two: one set before
\* stop() fires in the same state before it, one set after it is cleared by
\* onRecordingStop.
DebounceTimeout ==
  /\ mediaRecorder.state # "stopping"
  /\ \E cl \in summarizeTimeoutRef :
       Step(DebounceFired([Cur EXCEPT !.summarizeTimeoutRef = {}], cl))

\* transcribeInterview resolves
TranscribeResolved ==
  \E call \in transcribing : \E r \in Results :
    Step(TranscriptionSettled(Cur, call, TRUE, r))

\* transcribeInterview rejects
TranscribeRejected ==
  \E call \in transcribing :
    Step(TranscriptionSettled(Cur, call, FALSE, <<>>))

\* summarizeInterview resolves
SummarizeResolved ==
  \E call \in summarizing :
    Step(SummarizationSettled(Cur, call, TRUE))

\* summarizeInterview rejects
SummarizeRejected ==
  \E call \in summarizing :
    Step(SummarizationSettled(Cur, call, FALSE))

Next ==
  \/ ToggleStart
  \/ ToggleStartUnsupported
  \/ StartSucceeded
  \/ StartFailed
  \/ DataAvailable
  \/ ReaderLoadEnd
  \/ ToggleStop
  \/ RecorderStopped
  \/ RecorderFailed
  \/ PollFired
  \/ DebounceTimeout
  \/ TranscribeResolved
  \/ TranscribeRejected
  \/ SummarizeResolved
  \/ SummarizeRejected

Spec == Init /\ [][Next]_vars

\* ------------------------------------------------------------------- timing
\* One second passes.
Tick ==
  /\ \/ sinceGrowth < QuietWindow
     \/ \E t \in summarizeTimeoutRef : t.age < QuietWindow
  /\ Step([Cur EXCEPT
       !.sinceGrowth = Later(@),
       !.summarizeTimeoutRef = {[t EXCEPT !.age = Later(@)] : t \in @}])

\* setTimeout(..., SUMMARIZE_DEBOUNCE_MS) runs its callback no earlier than the
\* delay after it was set (line 151)
TimedDebounceTimeout ==
  /\ \A t \in summarizeTimeoutRef : t.age >= QuietWindow
  /\ DebounceTimeout

NextTimed ==
  \/ Tick
  \/ ToggleStart
  \/ ToggleStartUnsupported
  \/ StartSucceeded
  \/ StartFailed
  \/ DataAvailable
  \/ ReaderLoadEnd
  \/ ToggleStop
  \/ RecorderStopped
  \/ RecorderFailed
  \/ PollFired
  \/ TimedDebounceTimeout
  \/ TranscribeResolved
  \/ TranscribeRejected
  \/ SummarizeResolved
  \/ SummarizeRejected

SpecTimed == Init /\ [][NextTimed]_vars

\* ----------------------------------------------------------------- teardown
\* The page is unmounted: the cleanup of useAudioRecorder stops a recorder that
\* is not inactive and ends the tracks (use-audio-recorder.ts lines 98-105),
\* the cleanup of the debounce effect clears its timeout (page.tsx lines
\* 153-157).  Of what happens afterwards the events of the recorder are
\* followed; the other callbacks do not touch the recorder.
Unmount ==
  /\ mounted
  /\ Apply([Cur EXCEPT
       !.mounted = FALSE,
       !.mediaRecorder.state = IF @ = "recording" THEN "stopping" ELSE @,
       !.streamRef = IF @ = "live" THEN "stopped" ELSE @,
       !.summarizeTimeoutRef = {}])

\* getUserMedia resolves after the page was unmounted: the recorder starts
StartSucceededDetached ==
  \E cl \in starting :
    StepDetached([Cur EXCEPT
       !.starting = {},
       !.mediaRecorder = [state |-> "recording", cl |-> cl],
       !.streamRef = "live"])

\* The error event of a recorder started after the page was unmounted
RecorderFailedDetached ==
  /\ mediaRecorder.state = "recording"
  /\ StepDetached(onerror)

\* The stop event of the recorder after the page was unmounted
RecorderStoppedDetached ==
  /\ mediaRecorder.state \in {"stopping", "failed"}
  /\ \E last \in BOOLEAN :
       /\ last => produced < MaxChunks
       /\ StepDetached(onstop(last))

NextTeardown ==
  \/ ToggleStart
  \/ ToggleStartUnsupported
  \/ StartSucceeded
  \/ StartFailed
  \/ DataAvailable
  \/ ReaderLoadEnd
  \/ ToggleStop
  \/ RecorderStopped
  \/ RecorderFailed
  \/ PollFired
  \/ DebounceTimeout
  \/ TranscribeResolved
  \/ TranscribeRejected
  \/ SummarizeResolved
  \/ SummarizeRejected
  \/ Unmount
  \/ StartSucceededDetached
  \/ RecorderFailedDetached
  \/ RecorderStoppedDetached

SpecTeardown == Init /\ [][NextTeardown]_vars

\* ------------------------------------------------- the gateway on its own
\* The transcripts the gateway is given
GatewayInputs ==
  {Rep(" ", l) \o Rep("x", n) \o Rep(" ", r) :
     l \in 0..MaxPad, n \in 0..MaxInputLen, r \in 0..MaxPad}

InitGateway ==
  /\ InitPage
  /\ input \in GatewayInputs
  /\ output = NoOutput

\* summarizeInterview({transcript: input}) is called and answers
CallGateway ==
  /\ output = NoOutput
  /\ Apply([Cur EXCEPT !.output = summarizeInterview([transcript |-> input, id |-> 0])])

\* The page gives the transcript to handleSummarizeNotes, as an intermediate
\* or as a final summarization, during capture or not
SubmitInput ==
  /\ sumIssued = 0
  /\ \E isFinal \in BOOLEAN : \E rec \in BOOLEAN :
       Step(handleSummarizeNotes(Cur, input, isFinal,
                                 [isRecording |-> rec, appStatus |-> appStatus]))

NextGateway ==
  \/ CallGateway
  \/ SubmitInput

SpecGateway == InitGateway /\ [][NextGateway]_vars

\* ------------------------------------------------------------------ claims
\* The outcome recorded for chunk c in this session, if its call has settled.
Outcomes(c) == {i \in 1..Len(completed) : completed[i].chunk = c}

\* The results joined so far over the first k chunks of a sequence of chunks.
RECURSIVE JoinResults(_, _)
JoinResults(chunks, k) ==
  IF k = 0 THEN <<>>
  ELSE LET rest == JoinResults(chunks, k - 1)
           done == {i \in Outcomes(chunks[k]) : completed[i].ok /\ completed[i].text # <<>>}
       IN IF done = {} THEN rest
          ELSE rest \o (IF rest # <<>> THEN <<" ">> ELSE <<>>)
                    \o completed[CHOOSE i \in done : TRUE].text

\* C1: at every point of a session, Transcript is the results of the session's
\* successfully completed transcription calls that are not empty, in enqueue
\* order, joined by single spaces with no leading separator.
C1_TranscriptIsJoinOfResults ==
  currentTranscript = JoinResults(enqueued, Len(enqueued))

\* C2: at most one transcription call is in flight, and the call in flight is
\* for a chunk that arrived before every chunk still queued: the call for a
\* later chunk is not issued before the call for an earlier one has completed.
C2_OneTranscriptionInFlight ==
  /\ Cardinality(transcribing) <= 1
  /\ \A call \in transcribing : \A i \in 1..Len(audioChunkQueueRef) :
        call.chunk.n < audioChunkQueueRef[i].n

\* C2 witness: a call is in flight while a chunk that arrived later waits.
C2_Witness ==
  /\ Cardinality(transcribing) = 1
  /\ Len(audioChunkQueueRef) > 0
  /\ isProcessingAudioChunkRef

\* C3: at most one summarization call, intermediate or final, is in flight.
C3_OneSummarizationInFlight == Cardinality(summarizing) <= 1

\* C4: once a gateway call of the session has failed, no transcription call is
\* issued in that session any more, whether chunks were queued at the failure
\* or arrive later.
C4_NoTranscriptionAfterFailure ==
  [][(failed' /\ session' = session) => txIssued' = txIssued]_vars

\* C5: once a gateway call of the session has failed, no summarization call,
\* debounced or final, is issued in that session any more.
C5_NoSummarizationAfterFailure ==
  [][(failed' /\ session' = session) => sumIssuedHere' = sumIssuedHere]_vars

\* C6: once SessionStatus is Error, every event of the session leaves it Error.
C6_ErrorIsSticky ==
  [][(appStatus = "error" /\ session' = session) => appStatus' = "error"]_vars

\* C7: from the step in which SessionStatus becomes Error until a new session
\* starts, Transcript and Notes keep the values they had before the failure.
C7_ErrorFreezesTranscriptAndNotes ==
  [][((appStatus = "error" \/ appStatus' = "error") /\ session' = session)
       => (currentTranscript' = currentTranscript /\ currentNotes' = currentNotes)]_vars

\* Nothing is queued, being read, in flight or scheduled.
Quiescent ==
  /\ Len(audioChunkQueueRef) = 0
  /\ Len(readers) = 0
  /\ transcribing = {}
  /\ summarizing = {}
  /\ polls = {}
  /\ summarizeTimeoutRef = {}

\* C8: when capture stopped with SessionStatus not Error and Transcript meets
\* the threshold once everything has drained, exactly one final summarization
\* call was issued; and never more than one.
C8_ExactlyOneFinalCall ==
  /\ finalIssued <= 1
  /\ (/\ stopped
      /\ statusAtStop # "error"
      /\ Quiescent
      /\ Len(Trim(currentTranscript)) >= MIN_TRANSCRIPT_LENGTH_FOR_SUMMARY)
     => finalIssued = 1

\* C9: the final summarization call is issued only with the queue empty and no
\* transcription call in flight, and a pending poll of the barrier goes away
\* only in such a state: with work outstanding the barrier polls again.
C9_FinalCallAfterDrain ==
  /\ [][finalIssued' > finalIssued =>
          /\ Len(audioChunkQueueRef) = 0 /\ transcribing = {}
          /\ Len(audioChunkQueueRef') = 0 /\ transcribing' = {}]_vars
  /\ [][(polls' # polls /\ polls' \subseteq polls) =>
          (Len(audioChunkQueueRef) = 0 /\ transcribing = {})]_vars

\* C9 witness: the final call is in flight in a session that transcribed a chunk.
C9_Witness ==
  /\ stopped
  /\ finalIssued = 1
  /\ \E call \in summarizing : call.isFinal
  /\ Len(completed) > 0

\* C10: after capture stopped, once SessionStatus is Idle or Error it keeps
\* that value until the next session starts.
C10_SettledStatusIsKept ==
  [][(stopped /\ appStatus \in {"idle", "error"} /\ session' = session)
       => appStatus' = appStatus]_vars

\* C11: once a final summarization call of the session has completed, Notes is
\* its result, also after an intermediate call that was in flight at stop
\* completes; and Notes that are a summary are the whole result of one call
\* issued over a transcript that met the threshold.
C11_NotesAreFinalResult ==
  /\ \A n \in finalNotes : currentNotes = n
  /\ currentNotes.kind = "summary" =>
        /\ currentNotes.call \in 1..sumIssued
        /\ Len(Trim(currentNotes.of)) >= MIN_TRANSCRIPT_LENGTH_FOR_SUMMARY

\* C12: when a poll of the barrier of a previous session fires after a new
\* session has started, it issues no summarization call and changes neither
\* Transcript, Notes nor SessionStatus of the new session.
C12_StalePollIsInert ==
  [][\A cl \in polls :
       (cl.session # session /\ PollFiredFor(cl)) =>
          /\ sumIssued' = sumIssued
          /\ currentTranscript' = currentTranscript
          /\ currentNotes' = currentNotes
          /\ appStatus' = appStatus]_vars

\* The response of a gateway call of a previous session is handled in this step.
StaleResponseHandled ==
  \/ \E call \in transcribing :
        /\ call.chunk.session # session
        /\ \/ \E r \in Results : Step(TranscriptionSettled(Cur, call, TRUE, r))
           \/ Step(TranscriptionSettled(Cur, call, FALSE, <<>>))
  \/ \E call \in summarizing :
        /\ call.session # session
        /\ \/ Step(SummarizationSettled(Cur, call, TRUE))
           \/ Step(SummarizationSettled(Cur, call, FALSE))

\* C13: a transcription or summarization response of a previous session that
\* arrives in a new session is discarded: Transcript, Notes, SessionStatus and
\* the in-flight flag of the new session stay as they are.
C13_StaleResponseIsDiscarded ==
  [][StaleResponseHandled =>
       /\ currentTranscript' = currentTranscript
       /\ currentNotes' = currentNotes
       /\ appStatus' = appStatus
       /\ isProcessingAudioChunkRef' = isProcessingAudioChunkRef]_vars

\* C14: the start of a session leaves Transcript empty, Notes the initial
\* placeholder, the queue empty, no last error, the transcription in-flight
\* flag down and no debounce timeout pending.
C14_StartResetsSession ==
  [][session' # session =>
       /\ currentTranscript' = <<>>
       /\ currentNotes' = InitialNotes
       /\ audioChunkQueueRef' = <<>>
       /\ errorMessage' = "none"
       /\ ~isProcessingAudioChunkRef'
       /\ summarizeTimeoutRef' = {}]_vars

\* C15: when the start of capture fails, SessionStatus still has the value it
\* had before the start command, goes to Error in that step, and last error is
\* the capture failure: the status is not Capturing in between.
C15_StartFailureBypassesCapturing ==
  /\ [][StartFailed =>
          /\ \A cl \in starting : appStatus = cl.appStatus
          /\ appStatus # "capturingAudio"
          /\ appStatus' = "error"
          /\ errorMessage' = "recorder"]_vars
  /\ [][ToggleStartUnsupported =>
          (appStatus' = "error" /\ errorMessage' = "recorder")]_vars

\* C16 as claimed: the toggle starts a session, resetting Transcript, Notes and
\* the queue, only when SessionStatus is Idle, and requests the stop of capture
\* in every other status.
C16_ToggleStartsOnlyWhenIdle ==
  [][/\ (ToggleStart \/ ToggleStartUnsupported) => appStatus = "idle"
     /\ ToggleStop => appStatus # "idle"]_vars

\* C16 as amended: the toggle starts a session, resetting Transcript, Notes and
\* the queue, only when capture is not active, whatever SessionStatus is; when
\* capture is active it requests the stop of capture and resets nothing.
C16_ToggleFollowsCapture ==
  [][/\ session' # session => ~isRecording
     /\ ToggleStop =>
          /\ isRecording
          /\ session' = session
          /\ currentTranscript' = currentTranscript
          /\ currentNotes' = currentNotes
          /\ audioChunkQueueRef' = audioChunkQueueRef
          /\ enqueued' = enqueued]_vars

\* C16 witness: a session was started by the toggle with SessionStatus Error,
\* and its capture is being stopped by the toggle.
C16_Witness ==
  /\ mediaRecorder.state = "stopping"
  /\ mediaRecorder.cl.appStatus = "error"
  /\ mediaRecorder.cl.session = session

\* C17: as long as the Transcript of the session, which only grows, is below
\* the threshold after trimming, no summarization call was issued in the
\* session and Notes is a placeholder.
C17_NoSummaryBelowThreshold ==
  Len(Trim(currentTranscript)) < MIN_TRANSCRIPT_LENGTH_FOR_SUMMARY =>
    (sumIssuedHere = 0 /\ currentNotes \in Placeholders)

\* C19: when capture stops with SessionStatus Error, the barrier is skipped:
\* the stop event schedules no poll, leaves SessionStatus Error and issues no
\* final summarization call.
C19_BarrierSkippedInError ==
  [][(RecorderStopped /\ appStatus = "error") =>
       /\ polls' = polls
       /\ appStatus' = "error"
       /\ sumIssued' = sumIssued]_vars

\* C20: when everything has drained after capture stopped and Transcript is
\* below the threshold, a SessionStatus that is not Error is Idle, no
\* summarization call was issued in the session and Notes is a placeholder;
\* and with such a Transcript the status is not Summarizing after the stop.
C20_ShortTranscriptEndsIdle ==
  (stopped /\ Len(Trim(currentTranscript)) < MIN_TRANSCRIPT_LENGTH_FOR_SUMMARY) =>
     /\ appStatus # "summarizingNotes"
     /\ (Quiescent /\ appStatus # "error") =>
           /\ appStatus = "idle"
           /\ sumIssuedHere = 0
           /\ currentNotes \in Placeholders

\* Transcript grows in this step, during capture, to a text that meets the
\* threshold, with SessionStatus neither Summarizing nor Error after it.
GrowthDuringCapture ==
  /\ currentTranscript' # currentTranscript
  /\ session' = session
  /\ isRecording'
  /\ Len(Trim(currentTranscript')) >= MIN_TRANSCRIPT_LENGTH_FOR_SUMMARY
  /\ appStatus' \notin {"summarizingNotes", "error"}

\* C18, restart: a growth event during capture leaves one timeout pending that
\* was set in that step, whatever was pending before.
C18_GrowthRestartsTimer ==
  [][GrowthDuringCapture =>
       /\ summarizeTimeoutRef' # {}
       /\ \A t \in summarizeTimeoutRef' : t.age = 0]_vars

\* C18, quiet window: an intermediate summarization call is issued no earlier
\* than one quiet window after the last growth event, over the Transcript as
\* it stands when the timeout fires.
C18_CallAfterQuietWindow ==
  [][\A c \in summarizing' \ summarizing :
       ~c.isFinal => (sinceGrowth >= QuietWindow /\ c.transcript = currentTranscript)]_vars

\* C18: debounce coalescing.  Growth events restart the timeout, the call is
\* issued a quiet window after the last of them over the Transcript at firing
\* time, and the growth events yield exactly one call: no second intermediate
\* call is issued before Transcript grows again.
C18_DebounceCoalescing ==
  /\ C18_GrowthRestartsTimer
  /\ C18_CallAfterQuietWindow
  /\ [][debouncedSinceGrowth' <= 1]_vars

\* C21: the final summarization call of the session is issued over the complete
\* Transcript: while it is in flight, in a session whose recorder did not fail,
\* no chunk of the session is still being read, queued or transcribed, and
\* Transcript is the snapshot it was given.
C21_FinalSnapshotIsComplete ==
  \A c \in summarizing :
    (c.isFinal /\ c.session = session /\ recorderError = "none") =>
       /\ c.transcript = currentTranscript
       /\ Len(readers) = 0
       /\ Len(audioChunkQueueRef) = 0
       /\ transcribing = {}

\* C22: an intermediate summarization call is issued, when the intermediate
\* calls issued before it in the session have completed, only if Transcript has
\* grown since the last of them was issued: a status change alone does not
\* lead to another call over a Transcript that a call has covered.
C22_RetriggeredOnlyByGrowth ==
  [][\A c \in summarizing' \ summarizing :
       (~c.isFinal /\ ~\E d \in summarizing : ~d.isFinal /\ d.session = session)
          => debouncedSinceGrowth = 0]_vars

\* The session has seen no failure of a gateway or of the recorder.
ErrorFree ==
  /\ ~failed
  /\ recorderError = "none"
  /\ appStatus # "error"

\* C23: growth of Transcript that arrived while a summarization call was in
\* flight is covered by a later call.  In an error-free session, while that
\* growth is not yet covered and no call is in flight, a debounced call is
\* scheduled during capture, and after capture stopped the session does not
\* come to rest before the final call was issued over it.
C23_GrowthDuringCallIsCovered ==
  (uncovered /\ ErrorFree /\ ~\E c \in summarizing : c.session = session) =>
     /\ (isRecording /\ mediaRecorder.state = "recording") => summarizeTimeoutRef # {}
     /\ stopped => ~Quiescent

\* C24: a session started from any SessionStatus, Error included, starts with
\* the status Capturing, and every chunk its recorder delivers is enqueued.
C24_SessionAfterErrorWorks ==
  /\ [][ToggleStart => appStatus' = "capturingAudio"]_vars
  /\ [][(Len(readers) > 0 /\ Head(readers).chunk.session = session /\ ReaderLoadEnd)
          => enqueued' = Append(enqueued, Head(readers).chunk)]_vars

ChunksInFlight == {c.chunk : c \in transcribing}
ChunksSettled == {completed[i].chunk : i \in 1..Len(completed)}

NoErrorRecorded ==
  /\ errorMessage = "none"
  /\ appStatus # "error"
  /\ recorderError = "none"
  /\ ~failed

ResolvedEmpty(call) == Step(TranscriptionSettled(Cur, call, TRUE, <<>>))

\* C28: a transcription call that resolves with an empty result leaves the
\* Transcript as it was, records no error and does not move the status to
\* Error, and the drain goes on: unless the status is Error already, the head
\* of the queue is submitted in the same step.
C28_EmptyResultIsHarmless ==
  [][\A call \in transcribing :
       ResolvedEmpty(call) =>
          /\ currentTranscript' = currentTranscript
          /\ transcriptRef' = transcriptRef
          /\ errorMessage' = errorMessage
          /\ appStatus' = "error" => appStatus = "error"
          /\ ~isProcessingAudioChunkRef' => Len(audioChunkQueueRef') = 0 \/ appStatus = "error"
          /\ (Len(audioChunkQueueRef) > 0 /\ appStatus # "error") =>
                /\ audioChunkQueueRef' = Tail(audioChunkQueueRef)
                /\ \E c \in transcribing' : c.chunk = Head(audioChunkQueueRef)]_vars

\* C28 witness: the first chunk came back empty while the second was queued;
\* the Transcript is still empty, no error is recorded and the second chunk is
\* with the gateway.
C28_Witness ==
  /\ Len(completed) = 1
  /\ completed[1].ok
  /\ completed[1].text = <<>>
  /\ currentTranscript = <<>>
  /\ errorMessage = "none"
  /\ appStatus # "error"
  /\ Len(enqueued) = 2
  /\ \E c \in transcribing : c.chunk = enqueued[2]

\* The call rejects
TranscriptionFailed(call) == Step(TranscriptionSettled(Cur, call, FALSE, <<>>))
SummarizationFailed(call) == Step(SummarizationSettled(Cur, call, FALSE))

\* C29: the failure of a transcription call or of a summarization call of the
\* session leaves the status Error and the failure as last error, and the call
\* is not made again: the failed chunk is neither queued nor in flight, and no
\* summarization call is issued by the failure.
C29_GatewayFailureIsFatal ==
  /\ [][\A call \in transcribing :
          (call.chunk.session = session /\ TranscriptionFailed(call)) =>
             /\ appStatus' = "error"
             /\ errorMessage' = "transcription"
             /\ call.chunk \notin {c.chunk : c \in transcribing'}
             /\ \A i \in 1..Len(audioChunkQueueRef') :
                   audioChunkQueueRef'[i] # call.chunk]_vars
  /\ [][\A call \in summarizing :
          (call.session = session /\ SummarizationFailed(call)) =>
             /\ appStatus' = "error"
             /\ errorMessage' = "summarization"
             /\ summarizing' = summarizing \ {call}]_vars

\* C30: the drain and the debounce do not wait for each other.  A chunk
\* enqueued while the status is Summarizing, with no transcription call in
\* flight, is submitted in the same step; a debounce timeout that fires while
\* a transcription call is in flight issues its summarization call.
C30_ChannelsAreIndependent ==
  /\ [][(/\ ReaderLoadEnd
         /\ Len(enqueued') > Len(enqueued)
         /\ appStatus = "summarizingNotes"
         /\ ~isProcessingAudioChunkRef
         /\ Len(audioChunkQueueRef) = 0)
          => /\ \E c \in transcribing' : c.chunk = Head(readers).chunk
             /\ appStatus' = "summarizingNotes"]_vars
  /\ [][(/\ DebounceTimeout
         /\ transcribing # {}
         /\ isProcessingAudioChunkRef)
          => /\ \E c \in summarizing' \ summarizing : ~c.isFinal /\ c.session = session
             /\ transcribing' = transcribing]_vars

\* C30 witness: one transcription call and one summarization call of the
\* session are in flight together, the summarization call issued by the
\* debounce.
C30_Witness ==
  /\ Cardinality(transcribing) = 1
  /\ Cardinality(summarizing) = 1
  /\ isRecording
  /\ appStatus = "summarizingNotes"
  /\ \A c \in transcribing : c.chunk.session = session
  /\ \A c \in summarizing : c.session = session /\ ~c.isFinal

\* C31: while a summarization call of the session is in flight and no error
\* has been recorded, the status is Summarizing.
C31_SummarizingWhileCallInFlight ==
  ((\E c \in summarizing : c.session = session) /\ NoErrorRecorded)
     => appStatus = "summarizingNotes"

\* C32: the status is TranscribingChunk only when capture is not active; while
\* capture is active and a chunk of the session is being transcribed (no error,
\* no summarization) the status is Capturing and the in-flight flag is set;
\* while a finalization poll is pending (no error, no summarization) the status
\* is TranscribingChunk; and the status is Capturing only while capture is
\* active.
C32_StatusFollowsCapture ==
  /\ appStatus = "processingAudioChunk" => ~isRecording
  /\ (/\ isRecording
      /\ \E c \in transcribing : c.chunk.session = session
      /\ NoErrorRecorded
      /\ summarizing = {})
        => (appStatus = "capturingAudio" /\ isProcessingAudioChunkRef)
  /\ (polls # {} /\ NoErrorRecorded /\ summarizing = {})
        => appStatus = "processingAudioChunk"
  /\ appStatus = "capturingAudio" => isRecording

\* C33: when the status is Idle nothing is pending: the queue is empty, no
\* transcription call and no summarization call is in flight, and neither a
\* debounce timeout nor a finalization poll is scheduled.
C33_IdleMeansNoPendingWork ==
  appStatus = "idle" =>
     /\ Len(audioChunkQueueRef) = 0
     /\ transcribing = {}
     /\ summarizing = {}
     /\ summarizeTimeoutRef = {}
     /\ polls = {}

\* The call resolves
SummarizationSucceeded(call) == Step(SummarizationSettled(Cur, call, TRUE))

\* C34: when a summarization call of the session resolves while the status is
\* Summarizing, Notes becomes its result; the status becomes Idle if the call
\* was the final one and Capturing if it was intermediate and capture is still
\* active; and it does not become Capturing when capture is no longer active.
C34_SummarizationSuccessMovesStatus ==
  [][\A call \in summarizing :
       (/\ call.session = session
        /\ appStatus = "summarizingNotes"
        /\ SummarizationSucceeded(call)) =>
          /\ currentNotes' = summarizeInterview(call)
          /\ call.isFinal => appStatus' = "idle"
          /\ (~call.isFinal /\ isRecording) => appStatus' = "capturingAudio"
          /\ ~isRecording => appStatus' # "capturingAudio"]_vars

\* C35: at most one debounce timeout is pending; a timeout that has just been
\* scheduled is the only one pending; and after the stop event none is pending.
C35_OneDebounceTimer ==
  /\ [][Cardinality(summarizeTimeoutRef') <= 1]_vars
  /\ [][\A t \in summarizeTimeoutRef' :
          (t.age = 0 /\ t \notin summarizeTimeoutRef) => summarizeTimeoutRef' = {t}]_vars
  /\ [][RecorderStopped => summarizeTimeoutRef' = {}]_vars

\* C35 witness: the Transcript grew twice during capture and the timeout set at
\* the first growth had not fired (no summarization call was issued) when the
\* second growth scheduled the one now pending.
C35_Witness ==
  /\ session = 1
  /\ isRecording
  /\ Len(completed) = 2
  /\ \A i \in 1..2 : completed[i].ok /\ Len(completed[i].text) >= MIN_TRANSCRIPT_LENGTH_FOR_SUMMARY
  /\ sumIssuedHere = 0
  /\ sinceGrowth = 0
  /\ Cardinality(summarizeTimeoutRef) = 1

\* The recorder of the current session
RecorderOfSession == mediaRecorder.cl.session = session /\ mediaRecorder.state # "none"

C37_FlagFollowsCall ==
  /\ [][isProcessingAudioChunkRef' <=> transcribing' # {}]_vars
  /\ [][isProcessingAudioChunkRef' # isProcessingAudioChunkRef
          => transcribing' # transcribing]_vars
  /\ [][\A call \in transcribing : \A r \in Results :
          (/\ Step(TranscriptionSettled(Cur, call, TRUE, r)) \/ TranscriptionFailed(call)
           /\ Len(audioChunkQueueRef) > 0
           /\ appStatus # "error")
            => /\ isProcessingAudioChunkRef'
               /\ transcribing' = (transcribing \ {call}) \cup (transcribing' \ transcribing)
               /\ Cardinality(transcribing' \ transcribing) = 1]_vars

\* C37 witness: a call for a chunk of the previous session is in flight in the
\* new session, the flag is set, and a chunk of the new session waits behind
\* it.
C37_Witness ==
  /\ isProcessingAudioChunkRef
  /\ \E c \in transcribing : c.chunk.session < session
  /\ Len(audioChunkQueueRef) > 0
  /\ \A i \in 1..Len(audioChunkQueueRef) : audioChunkQueueRef[i].session = session

\* C38: the toggle starts no session while capture is inactive and the status
\* is TranscribingChunk or Summarizing; hence, once capture of a session was
\* stopped, a new session starts only when the finalization of the old one is
\* over: no poll pending, nothing queued or being read, no call in flight.
C38_NoStartDuringFinalization ==
  /\ [][(ToggleStart \/ ToggleStartUnsupported) =>
          ~(~isRecording /\ appStatus \in {"processingAudioChunk", "summarizingNotes"})]_vars
  /\ [][(ToggleStart /\ stopped /\ recorderError = "none") =>
          /\ polls = {}
          /\ Len(readers) = 0
          /\ Len(audioChunkQueueRef) = 0
          /\ transcribing = {}
          /\ summarizing = {}]_vars

\* C39: the gateway answers the fixed placeholder, without calling the model,
\* exactly for the transcripts whose trimmed length is below the page's
\* threshold (the blank ones among them), and calls the model for the others;
\* and every call the page issues is for a transcript that the gateway gives to
\* the model.
C39_GatewayThresholdMatches ==
  /\ output # NoOutput =>
        /\ Len(Trim(input)) < MIN_TRANSCRIPT_LENGTH_FOR_SUMMARY
              => output = WaitingNotes
        /\ Len(Trim(input)) >= MIN_TRANSCRIPT_LENGTH_FOR_SUMMARY
              => (output.kind = "summary" /\ output.of = input)
  /\ \A c \in summarizing :
        /\ Len(Trim(c.transcript)) >= MIN_TRANSCRIPT_LENGTH_FOR_MEANINGFUL_SUMMARY
        /\ summarizeInterview(c).kind = "summary"

\* C39 witness: the gateway was given a padded transcript whose trimmed length
\* is exactly the threshold and called the model, and the page has issued a
\* call for the same transcript.
C39_Witness ==
  /\ Len(input) > MIN_TRANSCRIPT_LENGTH_FOR_SUMMARY
  /\ Len(Trim(input)) = MIN_TRANSCRIPT_LENGTH_FOR_SUMMARY
  /\ output.kind = "summary"
  /\ \E c \in summarizing : c.transcript = input

====
